---- MODULE Spec2Model ----
(***************************************************************************)
(* Model of the authenticated byte-trie of src/src/main.rs: the node       *)
(* model (Leaf, InnerNode), the canonical encoding, the cached digests and *)
(* the Tree facade (add, get, hash, is_empty, serialize).                  *)
(*                                                                         *)
(* Option<T> is modelled as a sequence of length 0 (None) or 1 (Some).     *)
(* A HashMap<u8, Box<Node>> is a function whose domain is the set of       *)
(* present bytes.  A Sha256Hash is the record [sha256 |-> preimage]: the   *)
(* hash is a deterministic, injective function of the hashed bytes.        *)
(* A Rust panic ends the program: the variable panic names its origin and  *)
(* no operation runs afterwards.                                           *)
(***************************************************************************)
EXTENDS Integers, Sequences, FiniteSets, TLC

(* ------------------------------ bounds --------------------------------- *)

\* Length of every key handed to Tree::add / Tree::get.  The program's keys
\* are Sha256Hash values of 32 bytes; Node::add and Node::get work on any
\* Vec<u8>, and the model runs them on keys of KeyLen bytes.
KeyLen == 2

\* Number of Tree::add calls in one run.
MaxAdds == 4

\* The bytes keys are made of, and the values stored.
KeyBytes == {0, 1}
Values == {<<2>>, <<18, 49>>}
Keys == [1..KeyLen -> KeyBytes]

(* ------------------------------ Option --------------------------------- *)

None == <<>>
Some(x) == <<x>>
Unwrap(o) == o[1]

(* --------------------------- codec and digest -------------------------- *)

\* usize::encode_var_vec: little-endian base-128 with continuation bit.
RECURSIVE EncodeVarVec(_)
EncodeVarVec(n) ==
    IF n < 128 THEN <<n>>
    ELSE <<(n % 128) + 128>> \o EncodeVarVec(n \div 128)

\* fn hash(vec) -> Sha256Hash
hash(vec) == [sha256 |-> vec]

\* Sha256Hash.0.to_vec(): the 32 bytes of a digest, byte i of digest h.
HashToVec(h) == [i \in 1..32 |-> [digest |-> h, index |-> i]]

\* Variant of LeafSerialize whose body-length prefix counts the two inner
\* length bytes only once.
LeafSerializeShortLen(leaf) ==
    LET inside == EncodeVarVec(Len(leaf.remaining_key)) \o leaf.remaining_key
                  \o EncodeVarVec(Len(leaf.value)) \o leaf.value
    IN  <<2>> \o EncodeVarVec(Len(inside) - 1) \o inside

\* impl Serializable for Leaf
LeafSerialize(leaf) ==
    LET inside == EncodeVarVec(Len(leaf.remaining_key)) \o leaf.remaining_key
                  \o EncodeVarVec(Len(leaf.value)) \o leaf.value
    IN  <<2>> \o EncodeVarVec(Len(inside)) \o inside

\* Leaf::new
LeafNew(remaining_key, value) ==
    LET leaf == [kind |-> "Leaf", remaining_key |-> remaining_key,
                 value |-> value, hash |-> None]
    IN  [leaf EXCEPT !.hash = Some(hash(LeafSerialize(leaf)))]

\* InnerNode::new
InnerNodeNew(map) == [kind |-> "InnerNode", map |-> map, hash |-> None]

\* Node::my_hash, Leaf::my_hash, InnerNode::my_hash: unwrap of the cache.
MyHash(node) ==
    IF node.hash = None THEN [panicked |-> TRUE, value |-> None]
    ELSE [panicked |-> FALSE, value |-> Unwrap(node.hash)]

\* One iteration of the loop of InnerNode::serialize: the bytes of slot i.
InnerSlot(map, i) ==
    IF i \in DOMAIN map
    THEN LET vec == HashToVec(MyHash(map[i]).value)
         IN  EncodeVarVec(Len(vec)) \o vec
    ELSE <<0>>

\* The loop `for i in lo..=hi` of InnerNode::serialize, as the concatenation
\* of its lower and upper half (slots in ascending order).
RECURSIVE InnerSlots(_, _, _)
InnerSlots(map, lo, hi) ==
    IF lo = hi THEN InnerSlot(map, lo)
    ELSE LET mid == (lo + hi) \div 2
         IN  InnerSlots(map, lo, mid) \o InnerSlots(map, mid + 1, hi)

\* impl Serializable for InnerNode; my_hash of a child without digest panics.
InnerNodeSerialize(inner) ==
    IF \E i \in DOMAIN inner.map : MyHash(inner.map[i]).panicked
    THEN [panicked |-> TRUE, value |-> <<>>]
    ELSE LET inside == InnerSlots(inner.map, 0, 255)
         IN  [panicked |-> FALSE,
              value |-> <<1>> \o EncodeVarVec(Len(inside)) \o inside]

\* impl Serializable for Node
NodeSerialize(node) ==
    IF node.kind = "InnerNode" THEN InnerNodeSerialize(node)
    ELSE [panicked |-> FALSE, value |-> LeafSerialize(node)]

\* InnerNode::update.  No function of the program calls it.
InnerNodeUpdate(inner) ==
    LET s == InnerNodeSerialize(inner)
    IN  IF s.panicked THEN [panicked |-> TRUE, node |-> inner]
        ELSE [panicked |-> FALSE,
              node |-> [inner EXCEPT !.hash = Some(hash(s.value))]]

(* ------------------------------ HashMap -------------------------------- *)

EmptyMap == <<>>
MapInsert(map, k, v) == [x \in (DOMAIN map) \cup {k} |-> IF x = k THEN v ELSE map[x]]
MapRemove(map, k) == [x \in (DOMAIN map) \ {k} |-> map[x]]

(* ----------------------------- Node model ------------------------------ *)

\* Variant of NodeAddLeaf that files the old leaf with its whole
\* remaining_key (first byte not removed).
NodeAddLeafKeepByte(leaf, key, value) ==
    IF Len(key) < 1 \/ Len(leaf.remaining_key) = 0
    THEN [panicked |-> TRUE, node |-> leaf]
    ELSE LET map1 == MapInsert(EmptyMap, key[1], LeafNew(Tail(key), value))
             map2 == MapInsert(map1, leaf.remaining_key[1],
                               LeafNew(leaf.remaining_key, leaf.value))
         IN  [panicked |-> FALSE, node |-> InnerNodeNew(map2)]

\* Node::add, arm Node::Leaf
NodeAddLeaf(leaf, key, value) ==
    IF Len(key) < 1
    THEN [panicked |-> TRUE, node |-> leaf]         \* key.split_at(1)
    ELSE LET a == key[1]
             b == Tail(key)
             map1 == MapInsert(EmptyMap, a, LeafNew(b, value))
         IN  IF Len(leaf.remaining_key) = 0
             THEN [panicked |-> TRUE, node |-> leaf]  \* remaining_key.remove(0)
             ELSE LET a2 == leaf.remaining_key[1]
                      rk == Tail(leaf.remaining_key)
                      map2 == MapInsert(map1, a2, LeafNew(rk, leaf.value))
                  IN  [panicked |-> FALSE, node |-> InnerNodeNew(map2)]

\* Node::add.  In the InnerNode arm the child is taken out of the map before
\* the recursive call and put back after it: when the call panics the child
\* is dropped and the map stays without it.
RECURSIVE NodeAdd(_, _, _)
NodeAdd(self, key, value) ==
    IF self.kind = "Leaf" THEN NodeAddLeaf(self, key, value)
    ELSE IF Len(key) < 1
         THEN [panicked |-> TRUE, node |-> self]     \* key.split_at(1)
         ELSE LET a == key[1]
                  b == Tail(key)
              IN  IF a \in DOMAIN self.map
                  THEN LET r == NodeAdd(self.map[a], b, value)
                           removed == MapRemove(self.map, a)
                       IN  IF r.panicked
                           THEN [panicked |-> TRUE,
                                 node |-> [self EXCEPT !.map = removed]]
                           ELSE [panicked |-> FALSE,
                                 node |-> [self EXCEPT
                                             !.map = MapInsert(removed, a, r.node)]]
                  ELSE [panicked |-> FALSE,
                        node |-> [self EXCEPT
                                    !.map = MapInsert(self.map, a, LeafNew(b, value))]]

\* Node::get
RECURSIVE NodeGet(_, _)
NodeGet(self, key) ==
    IF self.kind = "Leaf" THEN [panicked |-> FALSE, value |-> Some(self.value)]
    ELSE IF Len(key) < 1
         THEN [panicked |-> TRUE, value |-> None]    \* key.split_at(1)
         ELSE IF key[1] \in DOMAIN self.map
              THEN NodeGet(self.map[key[1]], Tail(key))
              ELSE [panicked |-> FALSE, value |-> None]

(* ----------------------------- Tree facade ----------------------------- *)

\* Tree::default
TreeDefault == None

\* Variant of TreeAdd whose first add consumes the first key byte, as a
\* split does.
TreeAddSplitFirst(tree, key, value) ==
    IF tree = None
    THEN [panicked |-> FALSE, root |-> Some(LeafNew(Tail(key), value))]
    ELSE LET r == NodeAdd(Unwrap(tree), key, value)
         IN  [panicked |-> r.panicked, root |-> Some(r.node)]

\* Tree::add; tree is the field Tree.root.
TreeAdd(tree, key, value) ==
    IF tree = None
    THEN [panicked |-> FALSE, root |-> Some(LeafNew(key, value))]
    ELSE LET r == NodeAdd(Unwrap(tree), key, value)
         IN  [panicked |-> r.panicked, root |-> Some(r.node)]

\* Tree::get
TreeGet(tree, key) ==
    IF tree = None THEN [panicked |-> FALSE, value |-> None]
    ELSE NodeGet(Unwrap(tree), key)

\* Tree::hash
TreeHash(tree) ==
    IF tree = None THEN [panicked |-> FALSE, value |-> hash(<<0>>)]
    ELSE MyHash(Unwrap(tree))

\* Tree::is_empty
TreeIsEmpty(tree) == tree = None

\* impl Serializable for Tree
TreeSerialize(tree) ==
    IF tree = None THEN [panicked |-> FALSE, value |-> <<0>>]
    ELSE NodeSerialize(Unwrap(tree))

(* ----------------------------- state machine --------------------------- *)

VARIABLES
    root,    \* Tree.root : Option<Node>
    added,   \* what the caller handed to add: key -> its values, in call order
    nadds,   \* number of add calls made
    ret,     \* the last call that returned, and what it returned
    panic    \* "none", or the function whose panic ended the program

vars == <<root, added, nadds, ret, panic>>

Init ==
    /\ root = TreeDefault
    /\ added = EmptyMap
    /\ nadds = 0
    /\ ret = [op |-> "default", result |-> None]
    /\ panic = "none"

\* tree.add(&key, value)
Add(key, value) ==
    /\ panic = "none"
    /\ nadds < MaxAdds
    /\ LET r == TreeAdd(root, key, value)
       IN  /\ root' = r.root
           /\ panic' = IF r.panicked THEN "Node::add" ELSE "none"
           /\ ret' = IF r.panicked THEN ret ELSE [op |-> "add", result |-> None]
    /\ added' = MapInsert(added, key,
                          IF key \in DOMAIN added THEN Append(added[key], value)
                          ELSE <<value>>)
    /\ nadds' = nadds + 1

\* tree.get(&key)
Get(key) ==
    /\ panic = "none"
    /\ LET r == TreeGet(root, key)
       IN  /\ panic' = IF r.panicked THEN "Node::get" ELSE "none"
           /\ ret' = IF r.panicked THEN ret ELSE [op |-> "get", result |-> r.value]
    /\ UNCHANGED <<root, added, nadds>>

\* tree.hash()
Hash ==
    /\ panic = "none"
    /\ LET r == TreeHash(root)
       IN  /\ panic' = IF r.panicked THEN "Node::my_hash" ELSE "none"
           /\ ret' = IF r.panicked THEN ret ELSE [op |-> "hash", result |-> r.value]
    /\ UNCHANGED <<root, added, nadds>>

\* tree.is_empty()
IsEmpty ==
    /\ panic = "none"
    /\ ret' = [op |-> "is_empty", result |-> TreeIsEmpty(root)]
    /\ UNCHANGED <<root, added, nadds, panic>>

\* tree.serialize()
Serialize ==
    /\ panic = "none"
    /\ LET r == TreeSerialize(root)
       IN  /\ panic' = IF r.panicked THEN "Node::my_hash" ELSE "none"
           /\ ret' = IF r.panicked THEN ret
                     ELSE [op |-> "serialize", result |-> r.value]
    /\ UNCHANGED <<root, added, nadds>>

Next ==
    \/ \E key \in Keys, value \in Values : Add(key, value)
    \/ \E key \in Keys : Get(key)
    \/ Hash
    \/ IsEmpty
    \/ Serialize

Spec == Init /\ [][Next]_vars

(* --------------------------- reading the trie -------------------------- *)

Last(s) == s[Len(s)]

\* Every node below (and including) node, with the branch bytes leading to it.
RECURSIVE NodesOf(_, _)
NodesOf(node, path) ==
    IF node.kind = "Leaf" THEN {[path |-> path, node |-> node]}
    ELSE {[path |-> path, node |-> node]}
         \cup UNION {NodesOf(node.map[b], Append(path, b)) : b \in DOMAIN node.map}

TreeNodes == IF root = None THEN {} ELSE NodesOf(Unwrap(root), <<>>)
TreeLeaves == {n \in TreeNodes : n.node.kind = "Leaf"}
TreeInners == {n \in TreeNodes : n.node.kind = "InnerNode"}

\* No key was handed to add twice.
DistinctKeys == \A k \in DOMAIN added : Len(added[k]) = 1

\* The key a leaf stands for: branch bytes, then remaining_key.
FullKey(l) == l.path \o l.node.remaining_key

\* The documented bytes of a Leaf: tag, body length, body.
LeafLayout(rk, v) ==
    LET body == <<Len(rk)>> \o rk \o <<Len(v)>> \o v
    IN  <<2, Len(body)>> \o body

\* All orders in which the pairs of S can be added.
Perms(S) ==
    LET n == Cardinality(S)
    IN  {p \in [1..n -> S] : \A i, j \in 1..n : p[i] = p[j] => i = j}

\* The tree after adding the pairs of seq, in order, to an empty tree.
RECURSIVE AddAll(_)
AddAll(seq) ==
    IF seq = <<>> THEN TreeDefault
    ELSE TreeAdd(AddAll(SubSeq(seq, 1, Len(seq) - 1)),
                 Last(seq)[1], Last(seq)[2]).root

(* -------------------------------- claims ------------------------------- *)

\* C1: after adds of pairwise distinct keys of one length, get(k) returns
\* the value given in add(k, v), for every key added so far.
C1_RoundTrip ==
    (panic = "none" /\ DistinctKeys) =>
        \A k \in DOMAIN added :
            TreeGet(root, k) = [panicked |-> FALSE, value |-> Some(added[k][1])]

\* C2: get(q) returns a value only if q was added, and then a value that was
\* added under q; for a key never added it returns None.
C2_LookupSound ==
    panic = "none" =>
        \A q \in Keys :
            LET r == TreeGet(root, q)
            IN  /\ ~r.panicked
                /\ r.value /= None =>
                     /\ q \in DOMAIN added
                     /\ \E i \in 1..Len(added[q]) : added[q][i] = Unwrap(r.value)

\* C3: an add(k, v2) for a key k stored with value v1 makes get(k) return v2
\* and leaves the value returned for every other key as it was.
C3_Overwrite ==
    [][\A k \in DOMAIN added :
          ( /\ TreeGet(root, k).value = Some(Last(added[k]))
            /\ nadds' = nadds + 1
            /\ Len(added'[k]) = Len(added[k]) + 1 )
          => /\ panic' = "none"
             /\ TreeGet(root', k).value = Some(Last(added'[k]))
             /\ \A k2 \in DOMAIN added \ {k} : TreeGet(root', k2) = TreeGet(root, k2)
      ]_vars

\* C4: for pairwise distinct keys, Tree::hash returns a digest, and it is the
\* digest of the tree built by adding the same pairs in any other order.
C4_OrderIndependent ==
    (panic = "none" /\ DistinctKeys) =>
        LET pairs == {<<k, added[k][1]>> : k \in DOMAIN added}
            h == TreeHash(root)
        IN  /\ ~h.panicked
            /\ \A p \in Perms(pairs) : TreeHash(AddAll(p)) = h

\* C5: after every add each node of the trie holds a digest, equal to the
\* hash of the node's encoding; Tree::hash returns the root's.
C5_DigestMaintained ==
    panic = "none" =>
        /\ \A n \in TreeNodes :
              /\ n.node.hash /= None
              /\ LET s == NodeSerialize(n.node)
                 IN  ~s.panicked /\ Unwrap(n.node.hash) = hash(s.value)
        /\ root /= None =>
              LET s == NodeSerialize(Unwrap(root))
              IN  TreeHash(root) = [panicked |-> FALSE, value |-> hash(s.value)]

\* C6: a Leaf with remaining_key rk and value v serializes to
\* [0x02, len(body)] ++ body with body = [len(rk)] ++ rk ++ [len(v)] ++ v,
\* rk = [1], v = [2] gives [2,4,1,1,1,2], and the Leaf's cached digest is the
\* hash of these bytes; serialize on a tree whose root is a Leaf returns them.
C6_LeafEncoding ==
    /\ \A n \in TreeLeaves :
          LET rk == n.node.remaining_key
              v == n.node.value
          IN  /\ LeafSerialize(n.node) = LeafLayout(rk, v)
              /\ n.node.hash = Some(hash(LeafLayout(rk, v)))
              /\ (rk = <<1>> /\ v = <<2>>) =>
                    /\ LeafSerialize(n.node) = <<2, 4, 1, 1, 1, 2>>
                    /\ n.node.hash = Some(hash(<<2, 4, 1, 1, 1, 2>>))
    /\ (ret.op = "serialize" /\ root /= None /\ Unwrap(root).kind = "Leaf") =>
          ret.result = LeafLayout(Unwrap(root).remaining_key, Unwrap(root).value)

C6_Witness ==
    /\ \E n \in TreeLeaves :
          n.node.remaining_key = <<1>> /\ n.node.value = <<2>>
    /\ \E n \in TreeLeaves : Len(n.node.remaining_key) = 0

\* C7: is_empty() is true exactly when no add has been made; get on the
\* empty tree finds nothing; the first add installs one Leaf with the whole
\* key and the value as root; once not empty, the tree never is empty again.
C7_Emptiness ==
    /\ [](/\ TreeIsEmpty(root) <=> nadds = 0
          /\ TreeIsEmpty(root) =>
                \A k \in Keys :
                    TreeGet(root, k) = [panicked |-> FALSE, value |-> None]
          /\ ret.op = "is_empty" => (ret.result <=> nadds = 0))
    /\ [][(TreeIsEmpty(root) /\ nadds' = 1) =>
             \E k \in Keys, v \in Values :
                 /\ added' = MapInsert(EmptyMap, k, <<v>>)
                 /\ root' = Some([kind |-> "Leaf", remaining_key |-> k, value |-> v,
                                  hash |-> Some(hash(LeafLayout(k, v)))])
                 /\ panic' = "none"]_vars
    /\ [][~TreeIsEmpty(root) => ~TreeIsEmpty(root')]_vars

C7_Witness ==
    /\ nadds >= 2
    /\ ret = [op |-> "is_empty", result |-> FALSE]

\* C8: every Inner node has at least 2 children.
C8_FanOut ==
    panic = "none" =>
        \A n \in TreeInners : Cardinality(DOMAIN n.node.map) >= 2

\* C9: for every Leaf, the branch bytes from the root followed by its
\* remaining_key are a key that was handed to add, distinct Leaves stand for
\* distinct keys, and a Leaf at depth d has a remaining_key of KeyLen - d bytes.
C9_KeyPath ==
    /\ \A l \in TreeLeaves :
          /\ FullKey(l) \in DOMAIN added
          /\ Len(l.node.remaining_key) = KeyLen - Len(l.path)
    /\ \A l1, l2 \in TreeLeaves : FullKey(l1) = FullKey(l2) => l1.path = l2.path

C9_Witness ==
    /\ Cardinality(TreeLeaves) >= 3
    /\ \E l \in TreeLeaves : Len(l.path) = 2
    /\ \E l \in TreeLeaves : Len(l.path) = 1

\* C10: every add call on keys of one length (repeats allowed) completes:
\* Node::add never splits an empty key or an empty remaining_key.
C10_AddCompletes == panic /= "Node::add"

====
